---- MODULE Spec2Model ----
(***************************************************************************)
(* Model of binstar_client.Binstar (src/binstar_client/__init__.py):       *)
(* the response check _check_response, the three-phase upload and the      *)
(* conditional download.                                                   *)
(*                                                                         *)
(* Python values of mixed type are tagged tuples, tag first, so that two   *)
(* values of different Python types are always comparable:                 *)
(*   <<"None">>, <<"int", n>>, <<"str", s>>, <<"dict", pairs>>, ...         *)
(* A dict is the sequence of its <<key, value>> pairs in insertion order.  *)
(***************************************************************************)
EXTENDS Integers, Sequences, FiniteSets, TLC

VARIABLES op, pc, args, target, fdpos, res, obj, s3data, s3res, res2, reqs,
          outcome, logged, calls, session, warned, prevDist, chk, chkOut

vars == <<op, pc, args, target, fdpos, res, obj, s3data, s3res, res2, reqs,
          outcome, logged, calls, session, warned, prevDist, chk, chkOut>>

\* ------------------------------------------------------------------ bounds
MaxLen == 1
MaxCalls == 2

\* ------------------------------------------------------------ Python values
None == <<"None">>
PyInt(n) == <<"int", n>>
PyStr(s) == <<"str", s>>
Dict(pairs) == <<"dict", pairs>>
JsonList == <<"list">>
NotJson == <<"notjson">>

IsDict(v) == v[1] = "dict"

HasKey(d, k) == \E i \in DOMAIN d : d[i][1] = k

DictGet(d, k) == d[CHOOSE i \in DOMAIN d : d[i][1] = k][2]

\* A mutant of DictSet: a new key is written over the last entry.
DictSetOverLast(d, k, v) ==
    IF HasKey(d, k)
    THEN [i \in DOMAIN d |-> IF d[i][1] = k THEN <<k, v>> ELSE d[i]]
    ELSE IF d = <<>> THEN <<<<k, v>>>>
    ELSE [d EXCEPT ![Len(d)] = <<k, v>>]

\* d[k] = v on an insertion-ordered dict: an existing key keeps its place,
\* a new key is appended.
DictSet(d, k, v) ==
    IF HasKey(d, k)
    THEN [i \in DOMAIN d |-> IF d[i][1] = k THEN <<k, v>> ELSE d[i]]
    ELSE Append(d, <<k, v>>)

\* d without the keys in ks, order kept.
Without(d, ks) == SelectSeq(d, LAMBDA p : p[1] \notin ks)

\* ------------------------------------------------------------ the content
Bytes == {0, 1}

Contents == UNION {[1..n -> Bytes] : n \in 0..MaxLen}

RECURSIVE Drop(_, _)
Drop(s, n) == IF n = 0 \/ s = <<>> THEN s ELSE Drop(Tail(s), n - 1)

\* compute_hash(fd, size) of binstar_client.utils, whose code is not part of
\* the sources modelled here; it follows the HashComputer contract: the
\* digest of the content from the stream's position to its end, in base64
\* form, and the number of bytes read.  Where it leaves the stream is not
\* settled: the contract says "restoring nothing" (the end of the content),
\* the concurrency section has the same stream read again from its original
\* offset.  restores chooses between the two: TRUE leaves the stream at the
\* offset it started from, FALSE at the end.
compute_hash(content, pos, size, restores) ==
    [b64md5 |-> <<"md5b64", Drop(content, pos)>>,
     size   |-> Len(content) - pos,
     newpos |-> IF restores THEN pos ELSE Len(content)]

\* ---------------------------------------------------------------- responses
\* net = "ok": a response with a status arrived; "fail": the transport raised
\* before any status was known; "unset": the local is not assigned yet.
Response(status, body, location) ==
    [net |-> "ok", status |-> status, body |-> body, location |-> location]

NetFail == [net |-> "fail", status |-> 0, body |-> None, location |-> None]
NoRes == [net |-> "unset", status |-> 0, body |-> None, location |-> None]

\* ------------------------------------------------------------------ outcomes
NoOutcome == [kind |-> "none", cls |-> "", val |-> None]
Return(v) == [kind |-> "return", cls |-> "", val |-> v]
Raise(cls, msg, status) == [kind |-> "raise", cls |-> cls, val |-> <<"exc", msg, status>>]

\* --------------------------------------------------------- _check_response
ErrCls(status) ==
    IF status = 401 THEN "Unauthorized"
    ELSE IF status = 404 THEN "NotFound"
    ELSE IF status = 409 THEN "Conflict"
    ELSE IF status >= 500 THEN "ServerError"
    ELSE "BinstarError"

\* The synthesized message '%s: %s ([%s] %s -> %s)'.
SynthMsg(method, url, status) == <<"synth", method, url, status>>

\* _check_response(res, allowed): NoOutcome when nothing is raised, else the
\* exception that leaves the method.  data.get on a JSON value that is not an
\* object raises AttributeError outside the try block.
check_response(r, allowed, method, url) ==
    IF r.status \in allowed
    THEN NoOutcome
    ELSE IF r.body = NotJson
    THEN Raise(ErrCls(r.status), SynthMsg(method, url, r.status), PyInt(r.status))
    ELSE IF ~IsDict(r.body)
    THEN Raise("AttributeError", PyStr("no attribute get"), None)
    ELSE IF HasKey(r.body[2], "error")
    THEN Raise(ErrCls(r.status), DictGet(r.body[2], "error"), PyInt(r.status))
    ELSE Raise(ErrCls(r.status), SynthMsg(method, url, r.status), PyInt(r.status))

\* A version string 'a.b.c' is <<"ver", a, b, c>>.
ClientVersion == <<"ver", 0, 8, 0>>

\* The version a response without the x-binstar-api-version header counts as.
DefaultApiVersion == <<"ver", 0, 2, 1>>

\* pv: the key that orders versions, component by component.
pv(v) == v[2] * 10000 + v[3] * 100 + v[4]

\* A mutant of CheckResponseFull: the version warning is raised as an error.
CheckResponseWarningRaised(r, v, allowed, method, url) ==
    LET api_version == IF v = None THEN DefaultApiVersion ELSE v
        warns == pv(api_version) > pv(ClientVersion)
    IN  [warned |-> warns,
         out |-> IF warns THEN Raise("UserWarning", None, None)
                 ELSE check_response(r, allowed, method, url)]

\* _check_response as a whole, lines 132-160: v is the response's
\* x-binstar-api-version header (None when absent).  The warning of lines
\* 134-137 is issued first and the status check follows in either case.
CheckResponseFull(r, v, allowed, method, url) ==
    LET api_version == IF v = None THEN DefaultApiVersion ELSE v
    IN  [warned |-> pv(api_version) > pv(ClientVersion),
         out |-> check_response(r, allowed, method, url)]

Versions ==
    {None, <<"ver", 0, 2, 1>>, <<"ver", 0, 8, 0>>, <<"ver", 0, 10, 0>>,
     <<"ver", 1, 0, 0>>}

\* The version headers drawn for the responses of the client's calls.
WireVersions == {None, <<"ver", 0, 10, 0>>}

\* ------------------------------------------------------------ bounded inputs
Statuses == {200, 201, 302, 304, 400, 401, 404, 409, 500, 503}

\* Bodies any endpoint may answer with: not JSON, a JSON value that is not an
\* object, an object without and with an 'error' field.
GenericBodies ==
    {NotJson, JsonList, Dict(<<>>), Dict(<< <<"error", PyStr("boom")>> >>)}

FormDatas ==
    {<< <<"key", PyStr("k1")>>, <<"policy", PyStr("p1")>> >>,
     << <<"Content-MD5", PyStr("old")>>, <<"key", PyStr("k1")>>,
        <<"Content-Length", PyStr("9")>> >>,
     << <<"Content-Length", PyStr("9")>>, <<"acl", PyStr("a")>> >>}

DistIds == {"abc", "xyz"}

StageBody(fd, dist) ==
    Dict(<< <<"post_url", PyStr("https://s3/x")>>, <<"form_data", fd>>,
            <<"dist_id", PyStr(dist)>> >>)

StageBodies ==
    {StageBody(Dict(fd), d) : fd \in FormDatas, d \in DistIds}
    \cup {StageBody(PyStr("notamapping"), "abc"),
          Dict(<< <<"form_data", Dict(<<>>)>>, <<"dist_id", PyStr("abc")>> >>),
          Dict(<< <<"post_url", PyStr("https://s3/x")>>, <<"dist_id", PyStr("abc")>> >>),
          Dict(<< <<"post_url", PyStr("https://s3/x")>>, <<"form_data", Dict(<<>>)>> >>)}

StageResponses ==
    {Response(s, b, None) : s \in Statuses, b \in GenericBodies}
    \cup {Response(s, b, None) : s \in {200, 201}, b \in StageBodies}
    \cup {NetFail}

StorageResponses ==
    {Response(s, PyStr(b), None) : s \in {200, 204, 403, 500}, b \in {"", "<Error>denied</Error>"}}
    \cup {Response(201, PyStr(""), None), NetFail}

CommitBodies ==
    GenericBodies \cup {Dict(<< <<"id", PyStr("release1")>> >>),
                        Dict(<< <<"id", PyStr("release2")>> >>)}

CommitStatuses == {200, 201, 401, 409, 500}

CommitResponses ==
    {Response(s, b, None) : s \in CommitStatuses, b \in CommitBodies} \cup {NetFail}

DownloadResponses ==
    {Response(s, b, l) : s \in Statuses, b \in GenericBodies,
                         l \in {None, PyStr("https://cdn/x")}}
    \cup {NetFail}

RedirectResponses ==
    {Response(s, NotJson, None) : s \in {200, 404}} \cup {NetFail}

\* The size argument, when given, is the number of bytes from the stream's
\* position to its end.
UploadArgs ==
    {a \in [md5 : {None, PyStr("1B2M2Y8AsgTpgAmY7PhCfg==")},
            size : {None} \cup {PyInt(n) : n \in 0..MaxLen},
            attrs : {"None", "dict", "list"}, content : Contents,
            pos : 0..MaxLen] :
        /\ a.pos <= Len(a.content)
        /\ a.size \in {None, PyInt(Len(a.content) - a.pos)}}

DownloadArgs ==
    [md5 : {None, PyStr(""), PyStr("abc123")}, size : {None}, attrs : {"None"},
     content : {<<>>}, pos : {0}]

NoArgs == [md5 |-> None, size |-> None, attrs |-> "None", content |-> <<>>, pos |-> 0]

\* ------------------------------------------------------------------ requests
Request(kind, url, data, file) ==
    [kind |-> kind, url |-> url, data |-> data, file |-> file]

Kinds(rs) == [i \in DOMAIN rs |-> rs[i].kind]

\* ------------------------------------------------------------------ session
\* 'token %s' % token
AuthValue(token) == <<"token", token>>

\* __init__, lines 40-47: the headers of the session of a new client.
InitSession(token) ==
    IF token \in {None, PyStr("")}
    THEN << <<"x-binstar-api-version", ClientVersion>> >>
    ELSE << <<"x-binstar-api-version", ClientVersion>>,
            <<"Authorization", AuthValue(token)>>,
            <<"User-Agent", <<"Binstar", ClientVersion>>>> >>

InitTokens == {None, PyStr("t0")}

RECURSIVE Merge(_, _)
\* The headers of one request: the session's, updated by the call's own.
Merge(hs, extra) ==
    IF extra = <<>> THEN hs
    ELSE Merge(DictSet(hs, extra[1][1], extra[1][2]), Tail(extra))

\* The content-type header jencode returns with the encoded payload.
JsonHeaders == << <<"Content-Type", PyStr("application/json")>> >>

\* The content-type header stream_multipart returns with the body.
MultipartHeaders == << <<"Content-Type", PyStr("multipart/form-data")>> >>

\* self.session.<verb>(url, headers=extra): auth is the auth= argument and
\* headers are the ones that leave the client.
SessionSend(rq, extra) ==
    [kind |-> rq.kind, url |-> rq.url, data |-> rq.data, file |-> rq.file,
     via |-> "session", auth |-> None, headers |-> Merge(session, extra)]

\* The Authorization value basic authentication makes of (username, password).
BasicValue(cred) == <<"basic", cred[1], cred[2]>>

\* self.session.post(url, auth=cred, headers=extra), line 88: the basic
\* credentials are applied after the headers are merged, so they replace an
\* Authorization header of the session on this request.
SessionSendAuth(rq, extra, cred) ==
    [kind |-> rq.kind, url |-> rq.url, data |-> rq.data, file |-> rq.file,
     via |-> "session", auth |-> <<"auth", cred[1], cred[2]>>,
     headers |-> DictSet(Merge(session, extra), "Authorization", BasicValue(cred))]

\* requests.<verb>(url, headers=extra): no session takes part.
PlainSend(rq, extra) ==
    [kind |-> rq.kind, url |-> rq.url, data |-> rq.data, file |-> rq.file,
     via |-> "requests", auth |-> None, headers |-> extra]

\* ------------------------------------------------------------------- upload
\* Lines 409-415: what the hashing step binds.  b64md5 is bound only on the
\* branch that calls compute_hash; on the other branch lines 412-415 measure
\* the size and seek back themselves.
Hashing(a, pos, restores) ==
    IF a.md5 = None
    THEN LET h == compute_hash(a.content, pos, a.size, restores)
         IN  [bound |-> TRUE, b64md5 |-> h.b64md5, size |-> PyInt(h.size),
              pos |-> h.newpos]
    ELSE IF a.size = None
    THEN [bound |-> FALSE, b64md5 |-> None,
          size |-> PyInt(Len(a.content) - pos), pos |-> pos]
    ELSE [bound |-> FALSE, b64md5 |-> None, size |-> a.size, pos |-> pos]

\* A mutant of UploadError: the status is left out of the error.
UploadErrorNoStatus(r) ==
    Raise("BinstarError", PyStr("Error uploading package"), None)

\* Line 429.
UploadError(r) ==
    Raise("BinstarError", PyStr("Error uploading package"), PyInt(r.status))

\* A mutant of S3Failed: only an error status fails the transfer.
S3FailedOnErrorOnly(r) == r.status >= 400

\* Line 425.
S3Failed(r) == r.status # 201

\* A mutant of StageAllowed: every 2xx status lets the stage call pass.
StageAllowed2xx == {200, 201}

\* The default allowed=[200] of the stage and commit calls.
StageAllowed == {200}

DownloadAllowed == {302, 304}

NoTarget == [basename |-> None, id |-> None]

Init ==
    /\ op = "none"
    /\ pc = "Idle"
    /\ args = NoArgs
    /\ fdpos = 0
    /\ res = NoRes
    /\ obj = None
    /\ s3data = None
    /\ s3res = NoRes
    /\ res2 = NoRes
    /\ reqs = <<>>
    /\ outcome = NoOutcome
    /\ logged = <<>>
    /\ calls = 0
    /\ target = NoTarget
    /\ \E token \in InitTokens : session = InitSession(token)
    /\ warned = FALSE
    /\ prevDist = None
    /\ chk = [r |-> NoRes, version |-> None, allowed |-> {}, done |-> FALSE]
    /\ chkOut = NoOutcome

\* A mutant of AttrsValid: attrs is never checked.
AttrsValidAlways(attrs) == TRUE

\* Lines 393-396: attrs is None (then {}) or a dict.
AttrsValid(attrs) == attrs \in {"None", "dict"}

\* A mutant of CommitRequest: the commit goes to the stage URL again.
CommitRequestToStage(o) ==
    Request("stage", PyStr("stage"),
            Dict(<< <<"dist_id", DictGet(o[2], "dist_id")>> >>), None)

\* A mutant of CommitRequest: a dist_id staged by an earlier call is reused.
CommitRequestStale(o) ==
    Request("commit", PyStr("commit"),
            Dict(<< <<"dist_id", IF prevDist = None THEN DictGet(o[2], "dist_id")
                                 ELSE prevDist>> >>), None)

\* Lines 431-433: the commit request carries the dist_id of obj.
CommitRequest(o) ==
    Request("commit", PyStr("commit"),
            Dict(<< <<"dist_id", DictGet(o[2], "dist_id")>> >>), None)

Fail(exc) ==
    /\ pc' = "Failed"
    /\ outcome' = exc

\* upload, lines 392-402: validate attrs, then send the stage POST.  attrs
\* that is None has become {} (line 394) by the time it is checked.
UploadCall(a) ==
    /\ pc = "Idle"
    /\ calls < MaxCalls
    /\ calls' = calls + 1
    /\ op' = "upload"
    /\ args' = [a EXCEPT !.attrs = IF a.attrs = "None" THEN "dict" ELSE a.attrs]
    /\ fdpos' = a.pos
    /\ res' = NoRes
    /\ obj' = None
    /\ s3data' = None
    /\ s3res' = NoRes
    /\ res2' = NoRes
    /\ logged' = <<>>
    /\ target' = NoTarget
    /\ warned' = FALSE
    /\ IF ~AttrsValid(a.attrs)
       THEN /\ Fail(Raise("TypeError", PyStr("argument attrs must be a dictionary"), None))
            /\ reqs' = <<>>
       ELSE /\ pc' = "Staging"
            /\ outcome' = NoOutcome
            /\ reqs' = <<SessionSend(Request("stage", PyStr("stage"), None, None),
                                     JsonHeaders)>>
    /\ UNCHANGED <<session, prevDist, chk, chkOut>>

\* upload, lines 402-423: the stage response arrives; check it, read the
\* staged upload, hash, inject the integrity fields, send the storage POST.
\* s3data is the very dict stored under obj['form_data'] (line 407), so the
\* two assignments of lines 417-418 show in obj as well (Content-Length is
\* already set when line 418 fails on the unbound b64md5).  res keeps the
\* response, whose json() is parsed afresh and is not touched.
\* upload adds no seek between lines 410 and 420, so the storage POST reads
\* the stream from wherever the hashing step left it.
StageResponse(r) ==
    /\ pc = "Staging"
    /\ res' = r
    /\ \E v \in WireVersions, restores \in BOOLEAN :
       LET cr == CheckResponseFull(r, v, StageAllowed, "POST", "stage")
           exc == cr.out
           h == Hashing(args, fdpos, restores)
       IN
       /\ warned' = IF r.net = "fail" THEN warned ELSE (warned \/ cr.warned)
       /\ IF r.net = "fail"
          THEN /\ Fail(Raise("ConnectionError", None, None))
               /\ UNCHANGED <<obj, s3data, fdpos, reqs>>
          ELSE IF exc # NoOutcome
          THEN /\ Fail(exc)
               /\ UNCHANGED <<obj, s3data, fdpos, reqs>>
          ELSE IF r.body = NotJson
          THEN /\ Fail(Raise("ValueError", None, None))
               /\ UNCHANGED <<obj, s3data, fdpos, reqs>>
          ELSE IF ~IsDict(r.body)
          THEN /\ Fail(Raise("TypeError", None, None))
               /\ obj' = r.body
               /\ UNCHANGED <<s3data, fdpos, reqs>>
          ELSE IF ~HasKey(r.body[2], "post_url") \/ ~HasKey(r.body[2], "form_data")
          THEN /\ Fail(Raise("KeyError", None, None))
               /\ obj' = r.body
               /\ UNCHANGED <<s3data, fdpos, reqs>>
          ELSE IF ~IsDict(DictGet(r.body[2], "form_data"))
          THEN /\ Fail(Raise("TypeError", None, None))
               /\ obj' = r.body
               /\ s3data' = DictGet(r.body[2], "form_data")
               /\ fdpos' = h.pos
               /\ UNCHANGED reqs
          ELSE LET fd0 == DictGet(r.body[2], "form_data")[2]
                   fd1 == DictSet(fd0, "Content-Length", h.size)
                   fd2 == DictSet(fd1, "Content-MD5", h.b64md5)
               IN
               /\ fdpos' = h.pos
               /\ IF ~h.bound
                  THEN /\ Fail(Raise("UnboundLocalError", PyStr("b64md5"), None))
                       /\ s3data' = Dict(fd1)
                       /\ obj' = Dict(DictSet(r.body[2], "form_data", Dict(fd1)))
                       /\ UNCHANGED reqs
                  ELSE /\ pc' = "Transferring"
                       /\ s3data' = Dict(fd2)
                       /\ obj' = Dict(DictSet(r.body[2], "form_data", Dict(fd2)))
                       /\ reqs' = Append(reqs,
                              PlainSend(Request("storage", DictGet(r.body[2], "post_url"),
                                                Dict(fd2), <<"file", args.content, h.pos>>),
                                        MultipartHeaders))
                       /\ UNCHANGED outcome
    /\ UNCHANGED <<op, args, target, s3res, res2, logged, calls, session, prevDist,
                   chk, chkOut>>

\* upload, lines 423-434: the storage outcome arrives; on anything but 201
\* the body and two empty records are logged (lines 426-428) and the upload
\* error is raised, else the commit POST is sent.
StorageResponse(r) ==
    /\ pc = "Transferring"
    /\ s3res' = r
    /\ IF r.net = "fail"
       THEN /\ Fail(Raise("ConnectionError", None, None))
            /\ UNCHANGED <<reqs, logged>>
       ELSE IF S3Failed(r)
       THEN /\ Fail(UploadError(r))
            /\ logged' = logged \o <<r.body, PyStr(""), PyStr("")>>
            /\ UNCHANGED reqs
       ELSE IF ~HasKey(obj[2], "dist_id")
       THEN /\ Fail(Raise("KeyError", None, None))
            /\ UNCHANGED <<reqs, logged>>
       ELSE /\ pc' = "Committing"
            /\ reqs' = Append(reqs, SessionSend(CommitRequest(obj), JsonHeaders))
            /\ UNCHANGED <<outcome, logged>>
    /\ UNCHANGED <<op, args, target, fdpos, res, obj, s3data, res2, calls, session,
                   warned, prevDist, chk, chkOut>>

\* upload, lines 434-437: the commit response arrives; check it and return
\* its JSON body.
CommitResponse(r) ==
    /\ pc = "Committing"
    /\ res' = r
    /\ \E v \in WireVersions :
       LET cr == CheckResponseFull(r, v, StageAllowed, "POST", "commit")
           exc == cr.out
       IN
       /\ warned' = IF r.net = "fail" THEN warned ELSE (warned \/ cr.warned)
       /\ IF r.net = "fail"
          THEN Fail(Raise("ConnectionError", None, None))
          ELSE IF exc # NoOutcome
          THEN Fail(exc)
          ELSE IF r.body = NotJson
          THEN Fail(Raise("ValueError", None, None))
          ELSE /\ pc' = "Done"
               /\ outcome' = Return(r.body)
    /\ UNCHANGED <<op, args, target, fdpos, obj, s3data, s3res, res2, reqs, logged,
                   calls, session, prevDist, chk, chkOut>>

\* ----------------------------------------------------------------- download
\* download, lines 362-368: the first GET, redirects disabled, with an ETag
\* header when md5 is truthy; the md5 travels in the headers only, the
\* request has no data.
DownloadCall(a) ==
    /\ pc = "Idle"
    /\ calls < MaxCalls
    /\ calls' = calls + 1
    /\ op' = "download"
    /\ args' = a
    /\ fdpos' = 0
    /\ res' = NoRes
    /\ obj' = None
    /\ s3data' = None
    /\ s3res' = NoRes
    /\ res2' = NoRes
    /\ logged' = <<>>
    /\ pc' = "Downloading"
    /\ outcome' = NoOutcome
    /\ target' = NoTarget
    /\ warned' = FALSE
    /\ LET headers == IF a.md5 \notin {None, PyStr("")}
                      THEN << <<"ETag", a.md5>> >> ELSE <<>>
       IN  reqs' = <<SessionSend(Request("get1", PyStr("download"), None, None),
                                 headers)>>
    /\ UNCHANGED <<session, prevDist, chk, chkOut>>

\* download, lines 368-374: the response of the first GET arrives; check it,
\* return None on 304, else send the GET of the redirect target.
DownloadResponse(r) ==
    /\ pc = "Downloading"
    /\ res' = r
    /\ \E v \in WireVersions :
       LET cr == CheckResponseFull(r, v, DownloadAllowed, "GET", "download")
           exc == cr.out
       IN
       /\ warned' = IF r.net = "fail" THEN warned ELSE (warned \/ cr.warned)
       /\ IF r.net = "fail"
          THEN /\ Fail(Raise("ConnectionError", None, None))
               /\ UNCHANGED <<reqs, res2>>
          ELSE IF exc # NoOutcome
          THEN /\ Fail(exc)
               /\ UNCHANGED <<reqs, res2>>
          ELSE IF r.status = 304
          THEN /\ pc' = "Done"
               /\ outcome' = Return(None)
               /\ UNCHANGED <<reqs, res2>>
          ELSE IF r.location = None
          THEN /\ Fail(Raise("KeyError", None, None))
               /\ UNCHANGED <<reqs, res2>>
          ELSE /\ reqs' = Append(reqs, PlainSend(Request("get2", r.location, None, None), <<>>))
               /\ pc' = "Redirecting"
               /\ UNCHANGED <<outcome, res2>>
    /\ UNCHANGED <<op, args, target, fdpos, obj, s3data, s3res, logged, calls,
                   session, prevDist, chk, chkOut>>

\* download, lines 374-375: the response of the second GET arrives and is
\* returned as it is, whatever its status.
RedirectResponse(r2) ==
    /\ pc = "Redirecting"
    /\ res2' = r2
    /\ IF r2.net = "fail"
       THEN Fail(Raise("ConnectionError", None, None))
       ELSE /\ pc' = "Done"
            /\ outcome' = Return(<<"response", res.location, r2.status>>)
    /\ UNCHANGED <<op, args, target, fdpos, res, obj, s3data, s3res, reqs, logged,
                   calls, session, warned, prevDist, chk, chkOut>>

\* ------------------------------------------------ the single-call methods
\* Every method that sends one request and checks its response: the verb,
\* the allowed statuses, whether the JSON body is returned, whether the
\* request goes through the session, whether it carries a JSON payload.
Method(name, verb, allowed, json, via, payload) ==
    [name |-> name, verb |-> verb, allowed |-> allowed, json |-> json,
     via |-> via, payload |-> payload]

Methods ==
    {Method("list_scopes", "GET", {200}, TRUE, "requests", FALSE),
     Method("authentication", "GET", {200}, TRUE, "session", FALSE),
     Method("authentications", "GET", {200}, TRUE, "session", FALSE),
     Method("remove_authentication", "DELETE", {201}, FALSE, "session", FALSE),
     Method("user", "GET", {200}, TRUE, "session", FALSE),
     Method("user_packages", "GET", {200}, TRUE, "session", FALSE),
     Method("package", "GET", {200}, TRUE, "session", FALSE),
     Method("package_add_collaborator", "PUT", {201}, FALSE, "session", FALSE),
     Method("package_remove_collaborator", "DELETE", {201}, FALSE, "session", FALSE),
     Method("package_collaborators", "GET", {200}, TRUE, "session", FALSE),
     Method("all_packages", "GET", {200}, TRUE, "session", FALSE),
     Method("add_package", "POST", {200}, TRUE, "session", TRUE),
     Method("remove_package", "DELETE", {201}, FALSE, "session", FALSE),
     Method("release", "GET", {200}, TRUE, "session", FALSE),
     Method("remove_release", "DELETE", {201}, FALSE, "session", FALSE),
     Method("add_release", "POST", {200}, TRUE, "session", TRUE),
     Method("distribution", "GET", {200}, TRUE, "session", FALSE),
     Method("remove_dist", "DELETE", {200}, TRUE, "session", FALSE),
     Method("search", "GET", {200}, TRUE, "session", FALSE)}

MethodOf(name) == CHOOSE m \in Methods : m.name = name

\* basename and _id of remove_dist; the other methods have neither.
Targets == [basename : {None, PyStr(""), PyStr("pkg.tar.bz2")},
            id : {None, PyStr("d1")}]

\* remove_dist, lines 336-341: basename or _id must be truthy.
RemoveDistValid(t) ==
    t.basename \notin {None, PyStr("")} \/ t.id \notin {None, PyStr("")}

SimpleResponses ==
    {Response(s, b, None) : s \in Statuses, b \in GenericBodies} \cup {NetFail}

\* The call of a single-call method up to its request; remove_dist first
\* validates its arguments (lines 336-343).
SimpleCall(m, t) ==
    /\ pc = "Idle"
    /\ calls < MaxCalls
    /\ calls' = calls + 1
    /\ op' = m.name
    /\ t # NoTarget => m.name = "remove_dist"
    /\ target' = t
    /\ args' = NoArgs
    /\ fdpos' = 0
    /\ res' = NoRes
    /\ obj' = None
    /\ s3data' = None
    /\ s3res' = NoRes
    /\ res2' = NoRes
    /\ logged' = <<>>
    /\ warned' = FALSE
    /\ IF m.name = "remove_dist" /\ ~RemoveDistValid(t)
       THEN /\ Fail(Raise("TypeError", PyStr("method remove_dist expects either 'basename' or '_id' arguments"), None))
            /\ reqs' = <<>>
       ELSE /\ pc' = "Calling"
            /\ outcome' = NoOutcome
            /\ LET rq == Request(m.name, PyStr(m.name), None, None)
                   extra == IF m.payload THEN JsonHeaders ELSE <<>>
               IN  reqs' = <<IF m.via = "session" THEN SessionSend(rq, extra)
                             ELSE PlainSend(rq, extra)>>
    /\ UNCHANGED <<session, prevDist, chk, chkOut>>

\* The response of a single-call method: _check_response, then res.json()
\* or nothing.
SimpleResponse(r) ==
    /\ pc = "Calling"
    /\ res' = r
    /\ \E v \in WireVersions :
       LET m == MethodOf(op)
           cr == CheckResponseFull(r, v, m.allowed, m.verb, m.name)
           exc == cr.out
       IN
       /\ warned' = IF r.net = "fail" THEN warned ELSE (warned \/ cr.warned)
       /\ IF r.net = "fail"
          THEN Fail(Raise("ConnectionError", None, None))
          ELSE IF exc # NoOutcome
          THEN Fail(exc)
          ELSE IF ~m.json
          THEN /\ pc' = "Done"
               /\ outcome' = Return(None)
          ELSE IF r.body = NotJson
          THEN Fail(Raise("ValueError", None, None))
          ELSE /\ pc' = "Done"
               /\ outcome' = Return(r.body)
    /\ UNCHANGED <<op, args, target, fdpos, obj, s3data, s3res, res2, reqs, logged,
                   calls, session, prevDist, chk, chkOut>>

\* ------------------------------------------------------------- authenticate
AuthBodies ==
    GenericBodies \cup {Dict(<< <<"token", PyStr("t1")>> >>)}

AuthResponses ==
    {Response(s, b, None) : s \in Statuses, b \in AuthBodies} \cup {NetFail}

\* The (username, password) pairs authenticate is called with.
Credentials == {<<"u", "pw">>, <<"u", "other">>}

\* authenticate, lines 78-88: the POST to /authentications with basic auth.
AuthenticateCall(cred) ==
    /\ pc = "Idle"
    /\ calls < MaxCalls
    /\ calls' = calls + 1
    /\ op' = "authenticate"
    /\ target' = NoTarget
    /\ args' = NoArgs
    /\ fdpos' = 0
    /\ res' = NoRes
    /\ obj' = None
    /\ s3data' = None
    /\ s3res' = NoRes
    /\ res2' = NoRes
    /\ logged' = <<>>
    /\ warned' = FALSE
    /\ pc' = "Authenticating"
    /\ outcome' = NoOutcome
    /\ reqs' = <<SessionSendAuth(Request("authenticate", PyStr("authentications"),
                                         None, None),
                                 JsonHeaders, cred)>>
    /\ UNCHANGED <<session, prevDist, chk, chkOut>>

\* Line 92: session.headers.update({'Authorization': 'token %s' % token}).
SetToken(hs, r) ==
    DictSet(hs, "Authorization", AuthValue(DictGet(r.body[2], "token")))

\* authenticate, lines 88-93: check the response, read the token, put it in
\* the session's headers, return it.
AuthenticateResponse(r) ==
    /\ pc = "Authenticating"
    /\ res' = r
    /\ \E v \in WireVersions :
       LET cr == CheckResponseFull(r, v, StageAllowed, "POST", "authentications")
           exc == cr.out
       IN
       /\ warned' = IF r.net = "fail" THEN warned ELSE (warned \/ cr.warned)
       /\ IF r.net = "fail"
          THEN /\ Fail(Raise("ConnectionError", None, None))
               /\ UNCHANGED session
          ELSE IF exc # NoOutcome
          THEN /\ Fail(exc)
               /\ UNCHANGED session
          ELSE IF r.body = NotJson
          THEN /\ Fail(Raise("ValueError", None, None))
               /\ UNCHANGED session
          ELSE IF ~IsDict(r.body)
          THEN /\ Fail(Raise("TypeError", None, None))
               /\ UNCHANGED session
          ELSE IF ~HasKey(r.body[2], "token")
          THEN /\ Fail(Raise("KeyError", None, None))
               /\ UNCHANGED session
          ELSE /\ pc' = "Done"
               /\ session' = SetToken(session, r)
               /\ outcome' = Return(DictGet(r.body[2], "token"))
    /\ UNCHANGED <<op, args, target, fdpos, obj, s3data, s3res, res2, reqs, logged,
                   calls, prevDist, chk, chkOut>>

\* The call has returned or raised; the client is ready for the next call.
Finish ==
    /\ pc \in {"Done", "Failed"}
    /\ pc' = "Idle"
    /\ op' = "none"
    /\ args' = NoArgs
    /\ fdpos' = 0
    /\ res' = NoRes
    /\ obj' = None
    /\ s3data' = None
    /\ s3res' = NoRes
    /\ res2' = NoRes
    /\ reqs' = <<>>
    /\ outcome' = NoOutcome
    /\ logged' = <<>>
    /\ target' = NoTarget
    /\ warned' = FALSE
    /\ prevDist' = IF op = "upload" /\ obj # None /\ IsDict(obj) /\ HasKey(obj[2], "dist_id")
                   THEN DictGet(obj[2], "dist_id") ELSE prevDist
    /\ UNCHANGED <<calls, session, chk, chkOut>>

Next ==
    \/ \E a \in UploadArgs : UploadCall(a)
    \/ \E r \in StageResponses : StageResponse(r)
    \/ \E r \in StorageResponses : StorageResponse(r)
    \/ \E r \in CommitResponses : CommitResponse(r)
    \/ \E a \in DownloadArgs : DownloadCall(a)
    \/ \E r \in DownloadResponses : DownloadResponse(r)
    \/ \E r2 \in RedirectResponses : RedirectResponse(r2)
    \/ \E m \in Methods, t \in Targets \cup {NoTarget} : SimpleCall(m, t)
    \/ \E r \in SimpleResponses : SimpleResponse(r)
    \/ \E cred \in Credentials : AuthenticateCall(cred)
    \/ \E r \in AuthResponses : AuthenticateResponse(r)
    \/ Finish

Spec == Init /\ [][Next]_vars

\* ------------------------------------------- _check_response on its own
AllowedSets == {{200}, {201}, {302, 304}, {200, 404}}

CheckInputs ==
    [r : {Response(s, b, None) : s \in Statuses, b \in CommitBodies},
     version : Versions, allowed : AllowedSets, done : {FALSE}]

InitCheck ==
    /\ op = "none"
    /\ pc = "Idle"
    /\ args = NoArgs
    /\ fdpos = 0
    /\ res = NoRes
    /\ obj = None
    /\ s3data = None
    /\ s3res = NoRes
    /\ res2 = NoRes
    /\ reqs = <<>>
    /\ outcome = NoOutcome
    /\ logged = <<>>
    /\ calls = 0
    /\ target = NoTarget
    /\ session = InitSession(None)
    /\ warned = FALSE
    /\ prevDist = None
    /\ chk \in CheckInputs
    /\ chkOut = NoOutcome

\* One call _check_response(chk.r, chk.allowed).
CheckResponse ==
    /\ ~chk.done
    /\ chk' = [chk EXCEPT !.done = TRUE]
    /\ LET cr == CheckResponseFull(chk.r, chk.version, chk.allowed, "GET", "url")
       IN  /\ chkOut' = cr.out
           /\ warned' = cr.warned
    /\ UNCHANGED <<op, pc, args, target, fdpos, res, obj, s3data, s3res, res2, reqs,
                   outcome, logged, calls, session, prevDist>>

NextCheck == CheckResponse

SpecCheck == InitCheck /\ [][NextCheck]_vars

\* =================================================================== claims
\* The class the error taxonomy gives a status.
ClaimedClass(status) ==
    CASE status = 401 -> "Unauthorized"
      [] status = 404 -> "NotFound"
      [] status = 409 -> "Conflict"
      [] status >= 500 -> "ServerError"
      [] OTHER -> "BinstarError"

TypedErrors == {"Unauthorized", "NotFound", "Conflict", "ServerError", "BinstarError"}

\* The stage call answered 200 with post_url, form_data (a mapping) and dist_id.
StagedOk ==
    /\ op = "upload"
    /\ obj # None
    /\ IsDict(obj)
    /\ HasKey(obj[2], "post_url")
    /\ HasKey(obj[2], "form_data")
    /\ HasKey(obj[2], "dist_id")
    /\ IsDict(DictGet(obj[2], "form_data"))

\* The response of the commit POST has arrived (res then holds it).
CommitAnswered ==
    /\ op = "upload"
    /\ Len(reqs) = 3
    /\ pc \in {"Done", "Failed"}

\* The response of the stage POST has arrived and no later one replaced it.
StageAnswered ==
    /\ op = "upload"
    /\ Len(reqs) < 3
    /\ res.net # "unset"

\* C1: when the stage call answers 200 with post_url, form_data and dist_id,
\* the storage POST answers 201 and the commit POST answers 200 with a JSON
\* body B, the upload does not fail and, once done, has returned exactly B,
\* whether or not the caller supplied md5 and size.
C1_UploadReturnsCommitBody ==
    ( /\ StagedOk
      /\ s3res.net # "unset" => (s3res.net = "ok" /\ s3res.status = 201)
      /\ CommitAnswered => (res.net = "ok" /\ res.status = 200 /\ res.body # NotJson) )
    => /\ pc # "Failed"
       /\ pc = "Done" => outcome = Return(res.body)

\* C2: within one upload the requests are issued in the order stage, storage,
\* commit; the storage POST is issued only on a stage response of status 200
\* and the commit POST only on a storage response of status 201.
C2_PhasesInOrder ==
    [][ (op' = "upload" /\ reqs' # reqs) =>
          /\ Len(reqs') = 1 =>
               /\ Kinds(reqs') = <<"stage">>
               /\ res'.net = "unset"
          /\ Len(reqs') = 2 =>
               /\ Kinds(reqs') = <<"stage", "storage">>
               /\ reqs = SubSeq(reqs', 1, 1)
               /\ res'.net = "ok" /\ res'.status = 200
               /\ s3res'.net = "unset"
          /\ Len(reqs') = 3 =>
               /\ Kinds(reqs') = <<"stage", "storage", "commit">>
               /\ reqs = SubSeq(reqs', 1, 2)
               /\ s3res'.net = "ok" /\ s3res'.status = 201
          /\ Len(reqs') <= 3 ]_vars

C2_Witness ==
    /\ op = "upload"
    /\ Kinds(reqs) = <<"stage", "storage", "commit">>
    /\ pc = "Done"

\* C3: a stage response of any status other than 200 ends the upload in
\* Failed with the typed error of that status, and no storage or commit POST
\* is issued.
C3_StageFailureTyped ==
    (StageAnswered /\ res.net = "ok" /\ res.status # 200) =>
        /\ pc = "Failed"
        /\ outcome.kind = "raise"
        /\ outcome.cls = ClaimedClass(res.status)
        /\ Kinds(reqs) = <<"stage">>

\* C4: after a storage outcome other than HTTP 201 (another status, or a
\* network-level failure) no commit POST is issued in that upload.
C4_NoCommitAfterStorageFailure ==
    (op = "upload" /\ s3res.net # "unset" /\ ~(s3res.net = "ok" /\ s3res.status = 201)) =>
        /\ Kinds(reqs) = <<"stage", "storage">>
        /\ pc = "Failed"

C4_Witness ==
    /\ op = "upload"
    /\ s3res.net = "ok"
    /\ s3res.status = 200
    /\ pc = "Failed"

\* C5 as stated: every storage outcome other than HTTP 201, a network-level
\* failure included, ends the upload in Failed with the generic upload error,
\* and that error carries the storage response body.
C5_Original ==
    (op = "upload" /\ s3res.net # "unset" /\ ~(s3res.net = "ok" /\ s3res.status = 201)) =>
        /\ pc = "Failed"
        /\ outcome.kind = "raise"
        /\ outcome.cls = "BinstarError"
        /\ s3res.body \in {outcome.val[2], outcome.val[3]}

\* C5 amended: a storage response of a status other than 201 ends the upload
\* in Failed with the generic upload error carrying the fixed message 'Error
\* uploading package' and the storage status; the storage response body is
\* written to the log only (followed by two empty records).  A network-level failure ends it in Failed with
\* the transport's own exception, nothing logged.
C5_StorageFailureError ==
    /\ (op = "upload" /\ s3res.net = "ok" /\ s3res.status # 201) =>
          /\ pc = "Failed"
          /\ outcome = Raise("BinstarError", PyStr("Error uploading package"),
                             PyInt(s3res.status))
          /\ logged = <<s3res.body, PyStr(""), PyStr("")>>
    /\ (op = "upload" /\ s3res.net = "fail") =>
          /\ pc = "Failed"
          /\ outcome.kind = "raise"
          /\ outcome.cls = "ConnectionError"
          /\ logged = <<>>

C5_Witness ==
    /\ op = "upload"
    /\ s3res.net = "ok"
    /\ s3res.status = 500
    /\ s3res.body = PyStr("<Error>denied</Error>")
    /\ pc = "Failed"
    /\ logged[1] = s3res.body
    /\ Len(logged) = 3

\* What C6 expects in the storage form data.
ExpectedSize ==
    IF args.size # None THEN args.size
    ELSE PyInt(Len(args.content) - args.pos)

ExpectedDigest ==
    IF args.md5 # None THEN args.md5
    ELSE <<"md5b64", Drop(args.content, args.pos)>>

\* C6: every upload whose stage call succeeded reaches Transferring, with or
\* without a caller-supplied digest, and the form data sent to storage has
\* Content-Length equal to the size (supplied, else computed) and Content-MD5
\* equal to the base64 digest (supplied, else computed by hashing).
C6_IntegrityFields ==
    StagedOk =>
        /\ Len(reqs) >= 2
        /\ reqs[2].kind = "storage"
        /\ HasKey(reqs[2].data[2], "Content-Length")
        /\ HasKey(reqs[2].data[2], "Content-MD5")
        /\ DictGet(reqs[2].data[2], "Content-Length") = ExpectedSize
        /\ DictGet(reqs[2].data[2], "Content-MD5") = ExpectedDigest

IntegrityKeys == {"Content-Length", "Content-MD5"}

\* C7: the form data of the storage POST has the keys Content-Length and
\* Content-MD5, each once, and apart from these two keys it is the form_data
\* the stage response gave: same keys, same values, same relative order.
\* While the storage POST is in flight res is still the stage response; obj
\* by then holds the form data as sent.
C7_OnlyIntegrityKeysChange ==
    (op = "upload" /\ pc = "Transferring") =>
        LET sent == reqs[2].data[2]
            given == DictGet(res.body[2], "form_data")[2]
        IN  /\ Without(sent, IntegrityKeys) = Without(given, IntegrityKeys)
            /\ \A k \in IntegrityKeys :
                 Cardinality({i \in DOMAIN sent : sent[i][1] = k}) = 1
            /\ reqs[2].data = s3data
            /\ DictGet(obj[2], "form_data") = s3data

C7_Witness ==
    /\ op = "upload"
    /\ pc = "Transferring"
    /\ Len(DictGet(res.body[2], "form_data")[2]) = 2
    /\ Len(reqs[2].data[2]) = 4
    /\ ~HasKey(DictGet(res.body[2], "form_data")[2], "Content-MD5")
    /\ Len(DictGet(obj[2], "form_data")[2]) = 4

\* C8: when stage answered 200 and storage 201 but the commit response has a
\* status other than 200, the upload ends in Failed with the typed error of
\* the commit status and returns nothing.
C8_CommitFailureTyped ==
    (CommitAnswered /\ res.net = "ok" /\ res.status # 200) =>
        /\ pc = "Failed"
        /\ outcome.kind = "raise"
        /\ outcome.cls = ClaimedClass(res.status)

\* C9: _check_response raises nothing for a status in the allowed set and,
\* for any other status and any kind of body, raises the typed error whose
\* class the status alone fixes.
C9_CheckResponseTyped ==
    chk.done =>
        IF chk.r.status \in chk.allowed
        THEN chkOut = NoOutcome
        ELSE /\ chkOut.kind = "raise"
             /\ chkOut.cls = ClaimedClass(chk.r.status)

\* C10: the status of the first GET fixes download's outcome: 304 returns
\* None with no second request; 302 issues exactly one GET to the Location
\* and returns its handle; any other status, 200 included, raises a typed
\* error with no second request.
C10_DownloadOutcome ==
    (op = "download" /\ res.net = "ok") =>
        /\ res.status = 304 =>
             /\ outcome = Return(None)
             /\ Kinds(reqs) = <<"get1">>
        /\ (res.status = 302 /\ res.location # None) =>
             /\ Kinds(reqs) = <<"get1", "get2">>
             /\ reqs[2].url = res.location
             /\ res2.net = "unset" => (pc = "Redirecting" /\ outcome = NoOutcome)
             /\ res2.net = "ok" =>
                  outcome = Return(<<"response", res.location, res2.status>>)
        /\ res.status \notin {302, 304} =>
             /\ outcome.kind = "raise"
             /\ outcome.cls \in TypedErrors
             /\ Kinds(reqs) = <<"get1">>

\* The request a step has just issued.
Issued == reqs'[Len(reqs')]

ExternalKinds == {"storage", "get2"}

\* C11: every request a public method sends to the API domain goes through
\* the session: it carries the x-binstar-api-version header and, when the
\* session holds a token, the session's Authorization header.
C11_ApiRequestsUseSession ==
    [][ (reqs' # reqs /\ reqs' # <<>> /\ Issued.kind \notin ExternalKinds) =>
          /\ Issued.via = "session"
          /\ HasKey(Issued.headers, "x-binstar-api-version")
          /\ DictGet(Issued.headers, "x-binstar-api-version") = ClientVersion
          /\ HasKey(session, "Authorization") =>
               /\ HasKey(Issued.headers, "Authorization")
               /\ DictGet(Issued.headers, "Authorization")
                    = DictGet(session, "Authorization") ]_vars

\* C12: every upload call that passes validation starts with a stage POST of
\* its own, and the dist_id of its commit POST is the one its own stage
\* response returned, whatever dist_id an earlier call was given.
C12_CommitUsesOwnStage ==
    (op = "upload" /\ args.attrs \in {"None", "dict"}) =>
        /\ reqs # <<>>
        /\ reqs[1].kind = "stage"
        /\ \A i \in DOMAIN reqs : reqs[i].kind = "commit" =>
             /\ StagedOk
             /\ reqs[i].data = Dict(<< <<"dist_id", DictGet(obj[2], "dist_id")>> >>)
             /\ pc = "Committing" =>
                  reqs[i].data = Dict(<< <<"dist_id", DictGet(res.body[2], "dist_id")>> >>)

C12_Witness ==
    /\ op = "upload"
    /\ pc = "Committing"
    /\ prevDist = PyStr("abc")
    /\ reqs[3].data = Dict(<< <<"dist_id", PyStr("xyz")>> >>)

\* C14: within one upload each of the stage, storage and commit requests is
\* sent at most once, a step that fails issues no request, and no step of the
\* call follows a failure.
C14_NoRetryNoCleanup ==
    [][ op' = "upload" =>
          /\ pc # "Failed"
          /\ Len(reqs') <= Len(reqs) + 1
          /\ \A i \in DOMAIN reqs' : reqs'[i].kind \in {"stage", "storage", "commit"}
          /\ \A i, j \in DOMAIN reqs' : i # j => reqs'[i].kind # reqs'[j].kind
          /\ pc' = "Failed" => reqs' = reqs ]_vars

C14_Witness ==
    /\ op = "upload"
    /\ pc = "Failed"
    /\ Kinds(reqs) = <<"stage", "storage", "commit">>
    /\ res.net = "ok"
    /\ res.status = 500

\* The versions of the bounded set that exceed the client's 0.8.
Exceeding == {<<"ver", 0, 10, 0>>, <<"ver", 1, 0, 0>>}

\* C15: _check_response ends the same way for two responses that differ only
\* in the advertised version; a warning is issued exactly when the version
\* exceeds the client's, and it is never the raised error.
C15_WarningChangesNothing ==
    chk.done =>
        /\ \A v \in Versions :
             CheckResponseFull(chk.r, v, chk.allowed, "GET", "url").out = chkOut
        /\ chkOut.cls # "UserWarning"
        /\ chkOut = NoOutcome <=> chk.r.status \in chk.allowed
        /\ warned <=> chk.version \in Exceeding

C15_Witness ==
    /\ chk.done
    /\ warned
    /\ chk.version = <<"ver", 0, 10, 0>>
    /\ chkOut.kind = "raise"
    /\ chkOut.cls = "NotFound"

\* True of a step that calls upload with attrs that is not a mapping, or
\* remove_dist with neither basename nor _id.
BadArgumentsCall ==
    /\ pc = "Idle"
    /\ \/ op' = "upload" /\ args'.attrs \notin {"None", "dict"}
       \/ /\ op' = "remove_dist"
          /\ target'.basename \in {None, PyStr("")}
          /\ target'.id \in {None, PyStr("")}

\* C16: upload with attrs that is not a mapping and remove_dist with neither
\* basename nor _id raise the validation error before any request is issued,
\* and the session is left as it was.
C16_ValidationBeforeNetwork ==
    [][ BadArgumentsCall =>
          /\ pc' = "Failed"
          /\ outcome'.kind = "raise"
          /\ outcome'.cls = "TypeError"
          /\ reqs' = <<>>
          /\ session' = session ]_vars

C16_Witness ==
    /\ op = "remove_dist"
    /\ target = [basename |-> PyStr(""), id |-> None]
    /\ pc = "Failed"
    /\ outcome.cls = "TypeError"
    /\ reqs = <<>>

\* C17: authenticate sets the session's Authorization header to 'token T'
\* when the POST answers 200 with token T, and every later session request
\* carries it; on any other status a typed error is raised and the session's
\* headers stay as they were.
C17_AuthenticateSetsToken ==
    [][ /\ (pc = "Authenticating" /\ res'.net = "ok") =>
            /\ (res'.status = 200 /\ IsDict(res'.body) /\ HasKey(res'.body[2], "token")) =>
                 /\ session' = DictSet(session, "Authorization",
                                       AuthValue(DictGet(res'.body[2], "token")))
                 /\ outcome' = Return(DictGet(res'.body[2], "token"))
            /\ res'.status # 200 =>
                 /\ outcome'.kind = "raise"
                 /\ outcome'.cls \in TypedErrors
                 /\ session' = session
        /\ (reqs' # reqs /\ reqs' # <<>> /\ Issued.via = "session"
              /\ HasKey(session, "Authorization")) =>
            /\ HasKey(Issued.headers, "Authorization")
            /\ DictGet(Issued.headers, "Authorization")
                 = DictGet(session, "Authorization") ]_vars

====
